---- MODULE Spec2Model ----
(***************************************************************************)
(* Model of kerastuner/engine/cloudservice.py: the CloudService reporting  *)
(* client, its process pool and the send_to_backend task run by the pool.  *)
(*                                                                         *)
(* One controller thread calls enable / send_status / send_results /       *)
(* complete; the workers of the ProcessPoolExecutor run the submitted      *)
(* send_to_backend tasks.  Strings of the program that are taken apart     *)
(* (URLs) are sequences of one-character strings; "/" is the separator and *)
(* every other character stands for itself.                                *)
(***************************************************************************)
EXTENDS Integers, Sequences, FiniteSets, TLC

\* ---------------------------------------------------------------- bounds
\* time.time() at construction, in whole time units
T0 == 10
\* the clock stops advancing here
MaxTime == 17
\* unfinished work items at one time
MaxTasks == 2
\* process pools created over the life of the client
MaxPools == 3
\* worker processes of one pool
MaxWorkers == 2
\* characters of a URL part handed to _url_join on its own
MaxPartLen == 3

\* ------------------------------------------------------ module constants
DISABLE == "disable"
AUTH_ERROR == "authentication error"
CONNECT_ERROR == "connection error"
UPLOAD_ERROR == "upload error"
OK == "ok"
ERROR == "error"

\* Python's None, as an api_key and as a return value
None == "None"

\* the value __init__ gives log_interval
DefaultLogInterval == 5
\* the value __init__ gives last_update
InitialLastUpdate == -1

\* the default base_url: it ends with a separator
DefaultBaseUrl == <<"p", "/">>
\* the url arguments of enable(): <<>> is a falsy url (None or '')
UrlArgs == {<<>>, <<"b">>}
\* the api keys of enable()
Keys == {"test_key_true", "test_key_false", "user_key"}
\* the payloads (dicts) handed to send_status / send_results
Payloads == {[model_config |-> 2, score |-> 1]}

\* What requests.post can do: raise (service not reachable) or return a
\* response with an ok flag and a body; json names what response.json() gives
Responses ==
  {[kind |-> "exception", ok |-> FALSE, json |-> "none"]}
  \cup {[kind |-> "response", ok |-> TRUE, json |-> "none"]}
  \cup {[kind |-> "response", ok |-> FALSE, json |-> j] :
          j \in {"JSONDecodeError", "Unauthorized", "Other", "NoStatusKey"}}

\* the answers that differ for the access check, which reads the ok flag only
AccessResponses == {r \in Responses : r.json \in {"none", "Other"}}

\* the answers to the access check of a key: the two test keys are
\* answered without a request
CheckResponses(key) ==
  IF key \in {"test_key_true", "test_key_false"}
    THEN {[kind |-> "response", ok |-> TRUE, json |-> "none"]}
    ELSE AccessResponses

\* the classified failures of a send
Failures == {AUTH_ERROR, CONNECT_ERROR, UPLOAD_ERROR}

\* ------------------------------------------------------- pure functions
\* str.rstrip('/')
RECURSIVE rstrip(_)
rstrip(s) ==
  IF s # <<>> /\ s[Len(s)] = "/" THEN rstrip(SubSeq(s, 1, Len(s) - 1)) ELSE s

\* "/".join(parts)
RECURSIVE join(_)
join(parts) ==
  IF parts = <<>> THEN <<>>
  ELSE IF Len(parts) = 1 THEN parts[1]
  ELSE parts[1] \o <<"/">> \o join(Tail(parts))

\* _url_join without the rstrip of the fragments
_url_join_plain(parts) == join(parts)

\* CloudService._url_join(*parts)
_url_join(parts) == join([i \in 1..Len(parts) |-> rstrip(parts[i])])

\* the path segments of the two endpoints
UpdatePath == <<"v", "/", "u">>
CheckAccessPath == <<"v", "/", "c">>

\* the keys _normalize_data_to_send removes
Excluded == {"model_config", "epoch_history"}

\* the dicts send_to_backend is studied on: every dict over these keys, with
\* a flat value or a nested dict that has an excluded key of its own
PayloadKeys == {"model_config", "epoch_history", "score", "hp"}
PayloadValues == {[v |-> 1], [model_config |-> 1]}
PayloadSpace == UNION {[K -> PayloadValues] : K \in SUBSET PayloadKeys}

\* _normalize_data_to_send deleting the keys in the caller's dict (no deepcopy)
_normalize_in_place(info) ==
  LET cleaned == [k \in DOMAIN info \ Excluded |-> info[k]]
  IN [caller |-> cleaned, result |-> cleaned]

\* _normalize_data_to_send(info): result is the dict returned, caller is what
\* the caller's dict holds after the call
_normalize_data_to_send(info) ==
  LET copy == info
  IN [caller |-> info,
      result |-> [k \in DOMAIN copy \ Excluded |-> copy[k]]]

\* send_to_backend giving the generic error for a status it does not know
send_to_backend_generic(resp) ==
  IF resp.kind = "exception" THEN "ConnectionError"
  ELSE IF ~resp.ok THEN
    IF resp.json = "JSONDecodeError" THEN CONNECT_ERROR
    ELSE IF resp.json = "NoStatusKey" THEN "KeyError"
    ELSE IF resp.json = "Unauthorized" THEN AUTH_ERROR
    ELSE ERROR
  ELSE OK

\* send_to_backend, from the transport's behaviour to the value returned or
\* the exception raised
send_to_backend(resp) ==
  IF resp.kind = "exception" THEN "ConnectionError"
  ELSE IF ~resp.ok THEN
    IF resp.json = "JSONDecodeError" THEN CONNECT_ERROR
    ELSE IF resp.json = "NoStatusKey" THEN "KeyError"
    ELSE IF resp.json = "Unauthorized" THEN AUTH_ERROR
    ELSE UPLOAD_ERROR
  ELSE OK

\* CloudService._check_access: "True", "False" or the exception raised
_check_access(key, resp) ==
  IF key = "test_key_true" THEN "True"
  ELSE IF key = "test_key_false" THEN "False"
  ELSE IF resp.kind = "exception" THEN "ConnectionError"
  ELSE IF resp.ok THEN "True" ELSE "False"

\* the debounce test with >= in place of >
debounce_open_inclusive(ts, last, interval) == ts - last >= interval

\* the debounce test of send_status
debounce_open(ts, last, interval) == ts - last > interval

\* ---------------------------------------------------------------- state
VARIABLES
  enabled, status, base_url, api_key, log_interval, last_update,
  executor,       \* the pool self.executor refers to (pools are numbered)
  shutdownPools,  \* the pools on which shutdown() was called
  tasks,          \* the unfinished work items of the pools, oldest first
  now,            \* time.time()
  pc,             \* the controller: "idle", "checking" (inside enable,
                  \* waiting for the access check), "sending" (inside
                  \* _send_blocking, waiting for the answer), "draining"
                  \* (inside complete) or "stuck" (in a request that is
                  \* never answered)
  op,             \* the controller's most recent call
  ret,            \* what that call returned or raised
  lastCheck,      \* what the most recently answered access check gave
  lastStatusAt,   \* when the most recent "status" task was submitted
  lastOutcome,    \* what the most recently finished task returned or raised,
                  \* "none" when no task finished since the last enable()
                  \* ended
  fn,             \* the module-level function under study, "client" when
                  \* the client is run; its name with "_done" once applied
  arg,            \* the arguments that function is applied to
  out             \* what it gave

vars == <<enabled, status, base_url, api_key, log_interval, last_update,
          executor, shutdownPools, tasks, now, pc, op, ret, lastCheck,
          lastStatusAt, lastOutcome, fn, arg, out>>

\* the variables of the client
client == <<enabled, status, base_url, api_key, log_interval, last_update,
            executor, shutdownPools, tasks, now, pc, op, ret, lastCheck,
            lastStatusAt, lastOutcome>>

\* the variables of a function applied on its own
pure == <<fn, arg, out>>

fields == <<enabled, status, base_url, api_key, log_interval, last_update>>

\* CloudService.__init__
ClientInit ==
  /\ enabled = FALSE
  /\ status = DISABLE
  /\ base_url = DefaultBaseUrl
  /\ api_key = None
  /\ log_interval = DefaultLogInterval
  /\ last_update = InitialLastUpdate
  /\ executor = 1
  /\ shutdownPools = {}
  /\ tasks = <<>>
  /\ now = T0
  /\ pc = "idle"
  /\ op = "__init__"
  /\ ret = None
  /\ lastCheck = "none"
  /\ lastStatusAt = InitialLastUpdate
  /\ lastOutcome = "none"

\* the client on its own
Init ==
  /\ ClientInit
  /\ fn = "client"
  /\ arg = <<>>
  /\ out = <<>>

\* the controller enters a call
Call(name) ==
  /\ pc = "idle"
  /\ op' = name

\* CloudService.enable(api_key, url), up to the request of _check_access:
\* the credential and the url are stored before the check is answered
enable ==
  \E key \in Keys, url \in UrlArgs :
    /\ Call("enable")
    /\ api_key' = key
    /\ base_url' = IF url # <<>> THEN url ELSE base_url
    /\ pc' = "checking"
    /\ ret' = "blocked"
    /\ UNCHANGED <<pure, enabled, status, log_interval, last_update, executor,
                   shutdownPools, tasks, now, lastCheck, lastStatusAt,
                   lastOutcome>>

\* the end of enable() forgetting to clear enabled when the check fails
enable_return_sticky ==
  \E resp \in CheckResponses(api_key) :
    LET check == _check_access(api_key, resp)
    IN /\ pc = "checking"
       /\ pc' = "idle"
       /\ lastCheck' = check
       /\ lastOutcome' = "none"
       /\ IF check = "True"
            THEN status' = OK /\ enabled' = TRUE /\ ret' = None
          ELSE IF check = "False"
            THEN status' = AUTH_ERROR /\ enabled' = enabled /\ ret' = None
          ELSE status' = status /\ enabled' = enabled /\ ret' = check
       /\ UNCHANGED <<pure, base_url, api_key, log_interval, last_update,
                      executor, shutdownPools, tasks, now, op, lastStatusAt>>

\* CloudService.enable, from the answer of _check_access to the return:
\* status and enabled are written, or the exception of the transport leaves
\* the call
enable_return ==
  \E resp \in CheckResponses(api_key) :
    LET check == _check_access(api_key, resp)
    IN /\ pc = "checking"
       /\ pc' = "idle"
       /\ lastCheck' = check
       /\ lastOutcome' = "none"
       /\ IF check = "True"
            THEN status' = OK /\ enabled' = TRUE /\ ret' = None
          ELSE IF check = "False"
            THEN status' = AUTH_ERROR /\ enabled' = FALSE /\ ret' = None
          ELSE status' = status /\ enabled' = enabled /\ ret' = check
       /\ UNCHANGED <<pure, base_url, api_key, log_interval, last_update,
                      executor, shutdownPools, tasks, now, op, lastStatusAt>>

\* requests.post has no timeout: the access check of a user's key may never
\* be answered, and enable() never returns
enable_hang ==
  /\ pc = "checking"
  /\ api_key \notin {"test_key_true", "test_key_false"}
  /\ pc' = "stuck"
  /\ UNCHANGED <<pure, fields, executor, shutdownPools, tasks, now, op, ret,
                 lastCheck, lastStatusAt, lastOutcome>>

\* Executor.submit: a shut down pool refuses the task.  url and api_key are
\* read by the transport only, whose answer is a free choice (Responses), so
\* the work item keeps the info type, the payload and the pool it is in
submit(info_type, info) ==
  IF executor \in shutdownPools
    THEN tasks' = tasks /\ ret' = "RuntimeError"
    ELSE /\ tasks' = Append(tasks,
                [info_type |-> info_type, info |-> info, pool |-> executor,
                 state |-> "pending"])
         /\ ret' = None

\* _send_nonblocking without the test of enabled
_send_nonblocking_unguarded(info_type, info) == submit(info_type, info)

\* CloudService._send_nonblocking(info_type, info)
_send_nonblocking(info_type, info) ==
  IF ~enabled THEN tasks' = tasks /\ ret' = None
  ELSE submit(info_type, info)

\* CloudService.send_status(status)
send_status ==
  \E info \in Payloads :
    /\ Call("send_status")
    /\ Len(tasks) < MaxTasks
    /\ IF debounce_open(now, last_update, log_interval)
         THEN /\ _send_nonblocking("status", info)
              /\ last_update' = IF ret' = "RuntimeError" THEN last_update
                                ELSE now
              /\ lastStatusAt' = IF Len(tasks') > Len(tasks) THEN now
                                 ELSE lastStatusAt
         ELSE /\ tasks' = tasks /\ ret' = None
              /\ UNCHANGED <<pure, last_update, lastStatusAt>>
    /\ UNCHANGED <<pure, enabled, status, base_url, api_key, log_interval,
                   executor, shutdownPools, now, pc, lastCheck, lastOutcome>>

\* send_results put behind the debounce of send_status
send_results_debounced ==
  \E info \in Payloads :
    /\ Call("send_results")
    /\ Len(tasks) < MaxTasks
    /\ IF debounce_open(now, last_update, log_interval)
         THEN _send_nonblocking("results", info) /\ last_update' = now
         ELSE tasks' = tasks /\ ret' = None /\ last_update' = last_update
    /\ UNCHANGED <<pure, enabled, status, base_url, api_key, log_interval,
                   executor, shutdownPools, now, pc, lastCheck,
                   lastStatusAt, lastOutcome>>

\* CloudService.send_results(results)
send_results ==
  \E info \in Payloads :
    /\ Call("send_results")
    /\ Len(tasks) < MaxTasks
    /\ _send_nonblocking("results", info)
    /\ UNCHANGED <<pure, enabled, status, base_url, api_key, log_interval,
                   last_update, executor, shutdownPools, now, pc, lastCheck,
                   lastStatusAt, lastOutcome>>

\* a shutdown that waits for the running tasks only and leaves the queue
shutdown_waited_running(pool) ==
  \A i \in 1..Len(tasks) : tasks[i].pool = pool => tasks[i].state = "pending"

\* Executor.shutdown(wait=False): returns at once
shutdown_not_waited(pool) == TRUE

\* Executor.shutdown(wait=True) returns when no work item of the pool is left
shutdown_waited(pool) == \A i \in 1..Len(tasks) : tasks[i].pool # pool

\* CloudService.complete, up to the wait inside shutdown
complete_shutdown ==
  /\ Call("complete")
  /\ executor < MaxPools
  /\ pc' = "draining"
  /\ shutdownPools' = shutdownPools \cup {executor}
  /\ ret' = "blocked"
  /\ UNCHANGED <<pure, fields, executor, tasks, now, lastCheck, lastStatusAt,
                 lastOutcome>>

\* complete() keeping the pool it has shut down
same_executor == executor

\* the pool complete() installs
new_executor == executor + 1

\* complete() starting the next round with a reset debounce window
complete_return_reset ==
  /\ pc = "draining"
  /\ shutdown_waited(executor)
  /\ executor' = new_executor
  /\ pc' = "idle"
  /\ ret' = None
  /\ last_update' = InitialLastUpdate
  /\ UNCHANGED <<pure, enabled, status, base_url, api_key, log_interval,
                 shutdownPools, tasks, now, op, lastCheck, lastStatusAt,
                 lastOutcome>>

\* CloudService.complete, from the end of the wait to the return
complete_return ==
  /\ pc = "draining"
  /\ shutdown_waited(executor)
  /\ executor' = new_executor
  /\ pc' = "idle"
  /\ ret' = None
  /\ UNCHANGED <<pure, fields, shutdownPools, tasks, now, op, lastCheck,
                 lastStatusAt, lastOutcome>>

\* the work items a pool is running
Running(pool) ==
  {i \in 1..Len(tasks) :
     tasks[i].pool = pool /\ tasks[i].state \in {"running", "hung"}}

\* tasks without its i-th element
Remove(seq, i) == SubSeq(seq, 1, i - 1) \o SubSeq(seq, i + 1, Len(seq))

\* a free worker of a pool takes the oldest pending work item of its queue
task_start ==
  \E i \in 1..Len(tasks) :
    /\ tasks[i].state = "pending"
    /\ \A j \in 1..(i - 1) :
         tasks[j].pool = tasks[i].pool => tasks[j].state # "pending"
    /\ Cardinality(Running(tasks[i].pool)) < MaxWorkers
    /\ tasks' = [tasks EXCEPT ![i].state = "running"]
    /\ UNCHANGED <<pure, fields, executor, shutdownPools, now, pc, op, ret,
                   lastCheck, lastStatusAt, lastOutcome>>

\* a task whose send raises takes its worker down with it
task_finish_poisoned ==
  \E i \in 1..Len(tasks), resp \in Responses :
    /\ tasks[i].state = "running"
    /\ tasks' = IF send_to_backend(resp) \in {"ConnectionError", "KeyError"}
                  THEN [tasks EXCEPT ![i].state = "hung"]
                  ELSE Remove(tasks, i)
    /\ lastOutcome' = send_to_backend(resp)
    /\ UNCHANGED <<pure, fields, executor, shutdownPools, now, pc, op, ret,
                   lastCheck, lastStatusAt>>

\* a worker that stores the value of send_to_backend in the client's status
task_finish_recording ==
  \E i \in 1..Len(tasks), resp \in Responses :
    /\ tasks[i].state = "running"
    /\ tasks' = Remove(tasks, i)
    /\ lastOutcome' = send_to_backend(resp)
    /\ status' = IF send_to_backend(resp) \in {"ConnectionError", "KeyError"}
                   THEN status ELSE send_to_backend(resp)
    /\ UNCHANGED <<pure, enabled, base_url, api_key, log_interval,
                   last_update, executor, shutdownPools, now, pc, op, ret,
                   lastCheck, lastStatusAt>>

\* a worker finishes send_to_backend: the value or exception goes to the
\* future, to which nothing refers, and the work item is gone
task_finish ==
  \E i \in 1..Len(tasks), resp \in Responses :
    /\ tasks[i].state = "running"
    /\ tasks' = Remove(tasks, i)
    /\ lastOutcome' = send_to_backend(resp)
    /\ UNCHANGED <<pure, fields, executor, shutdownPools, now, pc, op, ret,
                   lastCheck, lastStatusAt>>

\* requests.post has no timeout: the send of a running task may never return,
\* and the task keeps its worker
task_hang ==
  \E i \in 1..Len(tasks) :
    /\ tasks[i].state = "running"
    /\ tasks' = [tasks EXCEPT ![i].state = "hung"]
    /\ UNCHANGED <<pure, fields, executor, shutdownPools, now, pc, op, ret,
                   lastCheck, lastStatusAt, lastOutcome>>

\* the client as the methods see it
Self ==
  [enabled |-> enabled, status |-> status, base_url |-> base_url,
   api_key |-> api_key, log_interval |-> log_interval,
   last_update |-> last_update]

\* get_config with the credential in the snapshot
get_config_with_key(self) ==
  [enabled |-> self.enabled, status |-> self.status,
   last_update |-> self.last_update, api_key |-> self.api_key]

\* CloudService.get_config: the dict returned
get_config(self) ==
  [enabled |-> self.enabled, status |-> self.status,
   last_update |-> self.last_update]

\* a call of CloudService.get_config; ret names the type of the value,
\* which is get_config(Self)
get_config_call ==
  /\ Call("get_config")
  /\ ret' = "dict"
  /\ UNCHANGED <<pure, fields, executor, shutdownPools, tasks, now, pc,
                 lastCheck, lastStatusAt, lastOutcome>>

\* CloudService.summary: displays status and last_update
summary ==
  /\ Call("summary")
  /\ ret' = None
  /\ UNCHANGED <<pure, fields, executor, shutdownPools, tasks, now, pc,
                 lastCheck, lastStatusAt, lastOutcome>>

\* time passes
tick ==
  /\ now < MaxTime
  /\ now' = now + 1
  /\ UNCHANGED <<pure, fields, executor, shutdownPools, tasks, pc, op, ret,
                 lastCheck, lastStatusAt, lastOutcome>>

Next ==
  \/ enable
  \/ enable_return
  \/ send_status
  \/ send_results
  \/ complete_shutdown
  \/ complete_return
  \/ task_start
  \/ task_finish
  \/ tick

Spec == Init /\ [][Next]_vars

\* ------------------------------------------ with the read-only methods
\* the client without its clock, with get_config and summary
ReadsNext ==
  \/ enable
  \/ enable_return
  \/ send_status
  \/ send_results
  \/ complete_shutdown
  \/ complete_return
  \/ task_start
  \/ task_finish
  \/ get_config_call
  \/ summary

SpecReads == Init /\ [][ReadsNext]_vars

\* ------------------------------------------- the drain under fairness
\* the client without its clock and its read-only methods, with sends that
\* hang
DrainNext ==
  \/ enable
  \/ enable_return
  \/ enable_hang
  \/ send_status
  \/ send_results
  \/ complete_shutdown
  \/ complete_return
  \/ task_start
  \/ task_finish
  \/ task_hang

\* a worker with a task to take takes it, a send that does not hang
\* returns, and a controller whose wait is over goes on
SpecDrain ==
  /\ Init
  /\ [][DrainNext]_vars
  /\ WF_vars(task_start)
  /\ WF_vars(task_finish)
  /\ WF_vars(complete_return)

\* -------------------------------------------- with the blocking send
\* what send_to_backend raises
Exceptions == {"ConnectionError", "KeyError"}

\* CloudService._send_blocking(info_type, info), up to the request of
\* send_to_backend: a disabled client returns at once
_send_blocking ==
  \E info_type \in {"status", "results"}, info \in Payloads :
    /\ Call("_send_blocking")
    /\ IF ~enabled
         THEN pc' = pc /\ ret' = "disabled"
         ELSE pc' = "sending" /\ ret' = "blocked"
    /\ UNCHANGED <<pure, fields, executor, shutdownPools, tasks, now,
                   lastCheck, lastStatusAt, lastOutcome>>

\* CloudService._send_blocking, from the answer of the request to the
\* return: the value of send_to_backend is stored in status, or its
\* exception leaves the call
_send_blocking_return ==
  \E resp \in Responses :
    LET r == send_to_backend(resp)
    IN /\ pc = "sending"
       /\ pc' = "idle"
       /\ IF r \in Exceptions
            THEN status' = status /\ ret' = r
            ELSE status' = r /\ ret' = None
       /\ UNCHANGED <<pure, enabled, base_url, api_key, log_interval,
                      last_update, executor, shutdownPools, tasks, now, op,
                      lastCheck, lastStatusAt, lastOutcome>>

\* requests.post has no timeout: the request of a blocking send may never be
\* answered, and _send_blocking never returns
_send_blocking_hang ==
  /\ pc = "sending"
  /\ pc' = "stuck"
  /\ UNCHANGED <<pure, fields, executor, shutdownPools, tasks, now, op, ret,
                 lastCheck, lastStatusAt, lastOutcome>>

\* the client without its clock and its read-only methods, with the
\* blocking send
BlockingNext ==
  \/ enable
  \/ enable_return
  \/ send_status
  \/ send_results
  \/ complete_shutdown
  \/ complete_return
  \/ task_start
  \/ task_finish
  \/ _send_blocking
  \/ _send_blocking_return
  \/ _send_blocking_hang

SpecBlocking == Init /\ [][BlockingNext]_vars

\* ------------------------------------------------- _url_join on its own
\* the URL parts: "a" stands for any character but the separator
Chars == {"a", "/"}
Parts == UNION {[1..n -> Chars] : n \in 0..MaxPartLen}

UrlInit ==
  /\ ClientInit
  /\ fn = "_url_join"
  /\ arg \in [base : Parts, seg : Parts]
  /\ out = <<>>

\* self._url_join(base, seg)
_url_join_call ==
  /\ fn = "_url_join"
  /\ fn' = "_url_join_done"
  /\ out' = _url_join(<<arg.base, arg.seg>>)
  /\ UNCHANGED <<arg, client>>

UrlNext == _url_join_call

SpecUrl == UrlInit /\ [][UrlNext]_vars

\* ------------------------------------------- send_to_backend on its own
\* the arguments of a send_to_backend call and the transport's answer to it
BackendArgs ==
  [url : {_url_join(<<DefaultBaseUrl, UpdatePath>>)},
   api_key : {"test_key_true", "user_key"},
   info_type : {"status", "results"},
   info : PayloadSpace,
   resp : Responses]

BackendInit ==
  /\ ClientInit
  /\ fn = "send_to_backend"
  /\ arg \in BackendArgs
  /\ out = <<>>

\* send_to_backend(url, api_key, info_type, info): the request it posts and
\* the value it returns or the exception it raises
send_to_backend_call ==
  /\ fn = "send_to_backend"
  /\ fn' = "send_to_backend_done"
  /\ LET n == _normalize_data_to_send(arg.info)
     IN /\ arg' = [arg EXCEPT !.info = n.caller]
        /\ out' = [request |->
                     [url |-> arg.url,
                      headers |-> [X_AUTH |-> arg.api_key],
                      json |-> [type |-> arg.info_type, data |-> n.result]],
                   result |-> send_to_backend(arg.resp)]
  /\ UNCHANGED client

BackendNext == send_to_backend_call

SpecBackend == BackendInit /\ [][BackendNext]_vars

\* ------------------------------------------------------------ type check
TypeOK ==
  /\ enabled \in BOOLEAN
  /\ status \in {DISABLE, OK, AUTH_ERROR, CONNECT_ERROR, UPLOAD_ERROR, ERROR}
  /\ api_key \in Keys \cup {None}
  /\ log_interval = DefaultLogInterval
  /\ last_update \in {InitialLastUpdate} \cup (T0..MaxTime)
  /\ lastStatusAt \in {InitialLastUpdate} \cup (T0..MaxTime)
  /\ executor \in 1..MaxPools
  /\ shutdownPools \subseteq 1..MaxPools
  /\ Len(tasks) <= MaxTasks
  /\ now \in T0..MaxTime
  /\ pc \in {"idle", "checking", "sending", "draining", "stuck"}

\* the work item a send call of the given type appends
Item(info_type, info) ==
  [info_type |-> info_type, info |-> info, pool |-> executor,
   state |-> "pending"]

\* ----------------------------------------------------------------- C1
\* C1: a send_status or send_results call made while enabled is false
\* submits no task to the pool and leaves status unchanged.
C1_DisabledSendsNothing ==
  [][((send_status \/ send_results) /\ ~enabled)
       => (tasks' = tasks /\ status' = status)]_vars

\* a send_results call on a client that an enable() left disabled, after a
\* complete()
C1_Witness ==
  /\ op = "send_results"
  /\ ~enabled
  /\ status = AUTH_ERROR
  /\ executor > 1
  /\ tasks = <<>>

\* ----------------------------------------------------------------- C2
\* C2: every enable() call ends with enabled=true and status=ok when its
\* access check succeeded and with enabled=false and status='authentication
\* error' when it did not; a client that was never enabled is disabled; so
\* enabled is true only if the most recent enable()'s check succeeded.
C2_EnabledIffLastCheck ==
  /\ (pc = "idle" /\ op = "enable" /\ lastCheck = "True")
       => (enabled /\ status = OK)
  /\ (pc = "idle" /\ op = "enable" /\ lastCheck # "True")
       => (~enabled /\ status = AUTH_ERROR)
  /\ lastCheck = "none" => ~enabled
  /\ enabled => lastCheck = "True"

\* ----------------------------------------------------------------- C3
\* C3: send_status is debounced.  On an enabled client a call at ts
\* dispatches one "status" task and restarts the window when
\* ts - last_update > log_interval, and otherwise does nothing, so after a
\* dispatched call a second call within log_interval adds no send and a
\* second call later than log_interval adds one; a "status" task is only
\* submitted more than log_interval after the previous one; tasks enter the
\* pool only in a send call, one at a time, so a dropped call is never sent.
C3_Debounce ==
  /\ [][(send_status /\ enabled) =>
         IF now - last_update > log_interval
           THEN /\ \E info \in Payloads :
                     tasks' = Append(tasks, Item("status", info))
                /\ last_update' = now
           ELSE tasks' = tasks /\ last_update' = last_update]_vars
  /\ [][(Len(tasks') > Len(tasks)
           /\ tasks'[Len(tasks')].info_type = "status")
         => now - lastStatusAt > log_interval]_vars
  /\ [][Len(tasks') > Len(tasks) =>
         /\ Len(tasks') = Len(tasks) + 1
         /\ SubSeq(tasks', 1, Len(tasks)) = tasks
         /\ pc = "idle" /\ enabled
         /\ op' \in {"send_status", "send_results"}]_vars

\* two "status" tasks are in the pool, the second dispatched after the
\* window of the first, and a later call falls inside the second window
C3_Witness ==
  /\ Len(tasks) = 2
  /\ tasks[1].info_type = "status"
  /\ tasks[2].info_type = "status"
  /\ op = "send_status"
  /\ lastStatusAt >= T0 + log_interval + 1
  /\ now > lastStatusAt

\* ----------------------------------------------------------------- C4
\* C4: send_status on a disabled client is a no-op: it dispatches nothing
\* and leaves every field unchanged, last_update included.
C4_DisabledStatusNoop ==
  [][(send_status /\ ~enabled) => UNCHANGED <<fields, tasks>>]_vars

\* ----------------------------------------------------------------- C5
\* C5: every send_results call on an enabled client submits exactly one
\* "results" task, whatever last_update is, and leaves last_update alone.
C5_ResultsNotDebounced ==
  [][(send_results /\ enabled) =>
       /\ \E info \in Payloads :
            tasks' = Append(tasks, Item("results", info))
       /\ last_update' = last_update]_vars

\* a "results" task submitted inside the debounce window of a "status" send
C5_Witness ==
  /\ op = "send_results"
  /\ Len(tasks) = 2
  /\ tasks[1].info_type = "status"
  /\ tasks[2].info_type = "results"
  /\ last_update >= T0
  /\ now - last_update <= log_interval

\* ----------------------------------------------------------------- C6
\* C6: send_results on a client that is not enabled returns a Disabled
\* indicator.
C6_DisabledIndicator ==
  (op = "send_results" /\ ~enabled) => ret = "disabled"

\* ----------------------------------------------------------------- C7
\* C7: when complete() has returned, no task of a pool that was shut down
\* is pending or running: the controller is outside complete() only while
\* every unfinished task belongs to the live pool.
C7_Drained ==
  pc # "draining" =>
    \A i \in 1..Len(tasks) : tasks[i].pool \notin shutdownPools

\* complete() has returned a second time and tasks have finished
C7_Witness ==
  /\ pc = "idle"
  /\ op = "complete"
  /\ Cardinality(shutdownPools) = 2
  /\ lastOutcome # "none"
  /\ tasks = <<>>

\* ----------------------------------------------------------------- C8
\* C8: complete() changes nothing but the pool: enabled, status, api_key,
\* base_url, log_interval and last_update are the same after as before.
C8_CompleteFrame ==
  [][(complete_shutdown \/ complete_return) => UNCHANGED fields]_vars

\* complete() has returned on an enabled client inside a debounce window
C8_Witness ==
  /\ pc = "idle"
  /\ op = "complete"
  /\ enabled
  /\ last_update >= T0
  /\ now - last_update <= log_interval

\* ----------------------------------------------------------------- C9
\* C9: every submit of send_status / send_results goes to a pool that has
\* not been shut down: no send call fails in submit, the task it adds is in
\* a live pool, and outside complete() the client's pool is a live one.
C9_PoolUsable ==
  /\ [](op \in {"send_status", "send_results"} => ret = None)
  /\ [](pc # "draining" => executor \notin shutdownPools)
  /\ [][Len(tasks') > Len(tasks) =>
         tasks'[Len(tasks')].pool \notin shutdownPools']_vars

\* after two complete() calls a task of the third pool is being run
C9_Witness ==
  /\ Cardinality(shutdownPools) = 2
  /\ op \in {"send_status", "send_results"}
  /\ Len(tasks) >= 1
  /\ tasks[1].pool = executor
  /\ tasks[1].state = "running"

\* ---------------------------------------------------------------- C10
\* C10: a send that completes with a classified failure is recorded in
\* status: once complete() has returned, with no later send and no later
\* enable(), status holds the outcome of the last finished send if that
\* send failed.
C10_FailureRecorded ==
  (pc = "idle" /\ op = "complete" /\ lastOutcome \in Failures)
    => status = lastOutcome

\* ---------------------------------------------------------------- C11
\* C11: enable() never raises: whatever the access check does, enable()
\* returns normally, and a check that did not succeed ends with
\* enabled=false and status='authentication error', so a newly stored
\* credential is never left with an enabled=true carried over.
C11_EnableNeverRaises ==
  (pc = "idle" /\ op = "enable") =>
    /\ ret = None
    /\ lastCheck # "True" => (~enabled /\ status = AUTH_ERROR)

\* ---------------------------------------------------------------- C12
\* C12: the snapshot of get_config() has the keys enabled, status and
\* last_update only, it is the same for every api_key the client could hold
\* in place of its own, and a get_config() call changes no state.
C12_ConfigHidesKey ==
  /\ [](/\ DOMAIN get_config(Self) = {"enabled", "status", "last_update"}
        /\ \A k \in Keys \cup {None} :
             get_config([Self EXCEPT !.api_key = k]) = get_config(Self))
  /\ [][get_config_call =>
         UNCHANGED <<fields, executor, shutdownPools, tasks>>]_vars

\* get_config() called on a client that holds a user's credential
C12_Witness ==
  /\ op = "get_config"
  /\ api_key = "user_key"
  /\ enabled
  /\ last_update >= T0

\* the values send_to_backend may return
Outcomes == {OK, AUTH_ERROR, CONNECT_ERROR, UPLOAD_ERROR}

\* ---------------------------------------------------------------- C13
\* C13: the data of the body send_to_backend posts is the caller's payload
\* without the keys model_config and epoch_history, every other key with its
\* value, nested values included, and the caller's payload is not changed.
\* Every send path posts through send_to_backend.
C13_PayloadSanitized ==
  [][send_to_backend_call =>
       LET data == out'.request.json.data
       IN /\ DOMAIN data = DOMAIN arg.info \ {"model_config", "epoch_history"}
          /\ \A k \in DOMAIN data : data[k] = arg.info[k]
          /\ out'.request.json.type = arg.info_type
          /\ arg'.info = arg.info]_vars

\* a payload with model_config, score and a nested dict was posted
C13_Witness ==
  /\ fn = "send_to_backend_done"
  /\ DOMAIN arg.info = {"model_config", "score", "hp"}
  /\ arg.info["hp"] = [model_config |-> 1]
  /\ DOMAIN out.request.json.data = {"score", "hp"}
  /\ out.request.json.data["hp"] = [model_config |-> 1]

\* ---------------------------------------------------------------- C15
\* C15: for every response of the transport (success, failure with a body
\* that is not JSON, failure with status 'Unauthorized', failure with
\* another status, failure with a JSON body without 'status')
\* send_to_backend returns one of the four outcomes and raises nothing.
C15_AlwaysOutcome ==
  (fn = "send_to_backend_done" /\ arg.resp.kind = "response")
    => out.result \in Outcomes

\* ---------------------------------------------------------------- C16
\* C16: success gives ok; failure with an unparseable body gives connection
\* error; failure with status 'Unauthorized' gives authentication error;
\* failure with any other status gives upload error; 'error' is never
\* returned.
C16_Classification ==
  fn = "send_to_backend_done" =>
    LET r == arg.resp
    IN /\ (r.kind = "response" /\ r.ok) => out.result = OK
       /\ (r.kind = "response" /\ ~r.ok /\ r.json = "JSONDecodeError")
            => out.result = CONNECT_ERROR
       /\ (r.kind = "response" /\ ~r.ok /\ r.json = "Unauthorized")
            => out.result = AUTH_ERROR
       /\ (r.kind = "response" /\ ~r.ok /\ r.json = "Other")
            => out.result = UPLOAD_ERROR
       /\ out.result # ERROR

\* a failed upload with a status other than 'Unauthorized' was classified
C16_Witness ==
  /\ fn = "send_to_backend_done"
  /\ ~arg.resp.ok
  /\ arg.resp.json = "Other"
  /\ out.result = UPLOAD_ERROR

\* ---------------------------------------------------------------- C18
\* C18 as stated: a separator added at the end of the base, at the start of
\* the segment, or at both, gives the same URL as the call without it.
C18_FourWayInvariant ==
  fn = "_url_join_done" =>
    /\ _url_join(<<arg.base \o <<"/">>, arg.seg>>) = out
    /\ _url_join(<<arg.base, <<"/">> \o arg.seg>>) = out
    /\ _url_join(<<arg.base \o <<"/">>, <<"/">> \o arg.seg>>) = out

\* C18 as amended: a separator added at the end of the base gives the same
\* URL as the call without it, and when the segment has no leading
\* separator the URL is the base without its trailing separators, one
\* separator, and the segment, with no separator next to that one.
C18_TrailingInvariant ==
  fn = "_url_join_done" =>
    /\ _url_join(<<arg.base \o <<"/">>, arg.seg>>) = out
    /\ (arg.seg # <<>> /\ arg.seg[1] # "/") =>
         \E n \in 0..Len(arg.base) :
           /\ SubSeq(arg.base, 1, n) = SubSeq(out, 1, n)
           /\ \A i \in (n + 1)..Len(arg.base) : arg.base[i] = "/"
           /\ n > 0 => out[n] # "/"
           /\ out[n + 1] = "/"
           /\ out[n + 2] = arg.seg[1]

\* a base with a trailing separator joined to a plain segment
C18_Witness ==
  /\ fn = "_url_join_done"
  /\ arg.base = <<"a", "/">>
  /\ arg.seg = <<"a">>
  /\ out = <<"a", "/", "a">>

\* a work item of the client's pool hangs
Hung == \E i \in 1..Len(tasks) :
          tasks[i].pool = executor /\ tasks[i].state = "hung"

\* ---------------------------------------------------------------- C14
\* C14: under fair scheduling a complete() whose tasks all finish returns
\* with a pool that was not shut down; as long as a task of the pool is
\* unfinished, and for ever if one hangs, complete() does not return and
\* the pool is not replaced.
C14_DrainTermination ==
  /\ (pc = "draining") ~>
       ((pc = "idle" /\ executor \notin shutdownPools) \/ Hung)
  /\ [][(pc = "draining" /\ \E i \in 1..Len(tasks) : tasks[i].pool = executor)
         => (pc' = "draining" /\ executor' = executor)]_vars
  /\ [][(pc = "draining" /\ Hung) => Hung']_vars

\* complete() waits while one task hangs and another is still queued
C14_Witness ==
  /\ pc = "draining"
  /\ Hung
  /\ Len(tasks) = 2

\* ---------------------------------------------------------------- C17
\* C17: send_status, send_results, complete() and the workers leave status
\* unchanged; status changes only in enable() and in _send_blocking, which
\* stores the value of its send when enabled and that send returns, and
\* leaves status unchanged when disabled.
C17_StatusWriters ==
  /\ [][(send_status \/ send_results \/ complete_shutdown \/ complete_return
           \/ task_start \/ task_finish) => status' = status]_vars
  /\ [][status' # status => op' \in {"enable", "_send_blocking"}]_vars
  /\ [][_send_blocking =>
         /\ status' = status
         /\ IF enabled THEN pc' = "sending" ELSE ret' = "disabled"]_vars
  /\ [][_send_blocking_return =>
         /\ enabled
         /\ \E resp \in Responses :
              LET r == send_to_backend(resp)
              IN IF r \in Outcomes
                   THEN status' = r /\ ret' = None
                   ELSE status' = status /\ ret' = r]_vars
  /\ [][_send_blocking_hang => status' = status]_vars

\* status holds the failure of a blocking send while the last task of the
\* pool failed in another way
C17_Witness ==
  /\ op = "_send_blocking"
  /\ enabled
  /\ status = UPLOAD_ERROR
  /\ lastOutcome = CONNECT_ERROR

\* ---------------------------------------------------------------- C19
\* C19: a task that raises in its worker changes no field of the client
\* and nothing of the controller, leaves the pool with its worker free, and
\* no send or complete() call raises.
C19_FailureIsolated ==
  /\ [][(tasks' # tasks /\ lastOutcome' \in {"ConnectionError", "KeyError"}
           /\ task_finish)
         => /\ UNCHANGED <<fields, executor, shutdownPools, pc, op, ret>>
            /\ \E i \in 1..Len(tasks) :
                 tasks[i].state = "running" /\ tasks' = Remove(tasks, i)]_vars
  /\ [](op \in {"send_status", "send_results", "complete"}
          => ret \in {None, "blocked"})

\* after a task raised, a send was accepted and a task is being run
C19_Witness ==
  /\ lastOutcome \in {"ConnectionError", "KeyError"}
  /\ op \in {"send_status", "send_results"}
  /\ ret = None
  /\ pc = "idle"
  /\ \E i \in 1..Len(tasks) : tasks[i].state = "running"

\* ---------------------------------------------------------------- C20
\* C20: in every state the public operations reach, status is 'disable',
\* 'ok' or 'authentication error', and enabled is true exactly when status
\* is 'ok'.
C20_StatusEnabled ==
  /\ status \in {DISABLE, OK, AUTH_ERROR}
  /\ enabled <=> status = OK

\* summary() on an enabled client one of whose sends has failed
C20_Witness ==
  /\ op = "summary"
  /\ enabled
  /\ status = OK
  /\ lastOutcome \in Failures
====
